---- MODULE Spec2Model ----
(***************************************************************************)
(* tk: command line history statistics.                                    *)
(*                                                                         *)
(* A model of the tokenizer (src/src/token.rs), the word parser            *)
(* (src/src/parse.rs) and the aggregation loop (src/src/main.rs).          *)
(*                                                                         *)
(* A line is a sequence of characters, each a one-character string.  The   *)
(* tokenizer's cursor `chars` is the number of characters consumed; the    *)
(* ranges carried by tokens are byte offsets, as in the source, so a       *)
(* character of more than one byte moves the offsets by its width.         *)
(***************************************************************************)
EXTENDS Integers, Sequences, FiniteSets, TLC

\* ------------------------------------------------------------------ bounds
\* Longest line enumerated over CoreAlphabet.
MaxLen == 4
\* Longest line enumerated over the full alphabet.
MaxShortLen == 2
\* Longest run of spaces and tabs put around a line when runs are compared.
MaxPad == 1
\* Lines read by the aggregation loop before it stops reading.
MaxLines == 2
\* Longest line body the aggregation loop reads.
MaxMainLen == 2

\* -------------------------------------------------------------- characters
Letters == {"a", "b", "c", "d", "e", "r", "v", "C", "L", "O", "R", "S"}
Digits == {"1"}
\* A letter of two bytes in UTF-8.
WideLetters == {"é"}
Blanks == {" ", "\t"}

\* TryFrom<char> for Token: the reserved symbols, "None" for any other char.
TokenKind(c) ==
    CASE c = "&" -> "Ampersand"
      [] c = "*" -> "Asterisk"
      [] c = "}" -> "CloseBrace"
      [] c = "]" -> "CloseBracket"
      [] c = ")" -> "CloseParenthesis"
      [] c = "\"" -> "DoubleQuote"
      [] c = "$" -> "Dollar"
      [] c = "=" -> "Equal"
      [] c = ">" -> "GreaterThan"
      [] c = "<" -> "LesserThan"
      [] c = "\n" -> "Newline"
      [] c = "{" -> "OpenBrace"
      [] c = "[" -> "OpenBracket"
      [] c = "(" -> "OpenParenthesis"
      [] c = ";" -> "Semicolon"
      [] c = "~" -> "Tilda"
      [] c = "|" -> "VerticalBar"
      [] OTHER -> "None"

\* TryFrom<Token> for char: the symbol of a reserved token, "None" for the
\* tokens that carry a range.
TokenChar(kind) ==
    CASE kind = "Ampersand" -> "&"
      [] kind = "Asterisk" -> "*"
      [] kind = "CloseBrace" -> "}"
      [] kind = "CloseBracket" -> "]"
      [] kind = "CloseParenthesis" -> ")"
      [] kind = "DoubleQuote" -> "\""
      [] kind = "Dollar" -> "$"
      [] kind = "Equal" -> "="
      [] kind = "GreaterThan" -> ">"
      [] kind = "LesserThan" -> "<"
      [] kind = "Newline" -> "\n"
      [] kind = "OpenBrace" -> "{"
      [] kind = "OpenBracket" -> "["
      [] kind = "OpenParenthesis" -> "("
      [] kind = "Semicolon" -> ";"
      [] kind = "Tilda" -> "~"
      [] kind = "VerticalBar" -> "|"
      [] OTHER -> "None"

RangeKinds == {"Spaces", "String", "QuotedString"}

\* char::len_utf8
Width(c) == IF c \in WideLetters THEN 2 ELSE 1

\* The byte offset of the character after the first n characters of s.
RECURSIVE Offset(_, _)
Offset(s, n) == IF n = 0 THEN 0 ELSE Offset(s, n - 1) + Width(s[n])

\* str::len
ByteLen(s) == Offset(s, Len(s))

\* str::is_char_boundary
IsCharBoundary(s, b) == \E n \in 0..Len(s) : Offset(s, n) = b

\* The number of characters before byte offset b, a character boundary.
CharsBefore(s, b) == CHOOSE n \in 0..Len(s) : Offset(s, n) = b

\* Whether s[a..b] is a slice Rust takes without panicking.
SliceOk(s, a, b) ==
    /\ a <= b
    /\ b <= ByteLen(s)
    /\ IsCharBoundary(s, a)
    /\ IsCharBoundary(s, b)

\* s[a..b], for a range SliceOk accepts.
Slice(s, a, b) == SubSeq(s, CharsBefore(s, a) + 1, CharsBefore(s, b))

\* ---------------------------------------------------------------- tokenizer
\* A token: its kind and, for Spaces, String and QuotedString, its range.
Token(kind, start, end) == [kind |-> kind, start |-> start, end |-> end]
Symbol(kind) == Token(kind, 0, 0)

\* What a tokenizer call yields: Ok(token) or Err(err), and the cursor it
\* leaves behind.
TokOk(tok, p) == [ok |-> TRUE, tok |-> tok, err |-> "None", chars |-> p]
TokErr(err, p) == [ok |-> FALSE, tok |-> Symbol("None"), err |-> err, chars |-> p]

\* Tokenizer::current
current(input, p) == IF p < Len(input) THEN Offset(input, p) ELSE ByteLen(input)

\* Tokenizer::single_quoted_string from cursor p: [ok, end, chars].
RECURSIVE single_quoted_string(_, _)
single_quoted_string(input, p) ==
    IF p >= Len(input)
    THEN [ok |-> FALSE, err |-> "Eos", end |-> 0, chars |-> p]
    ELSE IF input[p + 1] = "'"
         THEN [ok |-> TRUE, err |-> "None", end |-> Offset(input, p), chars |-> p + 1]
         ELSE single_quoted_string(input, p + 1)

\* Tokenizer::raw_string from cursor p: [ok, end, chars].
RECURSIVE raw_string(_, _)
raw_string(input, p) ==
    IF p >= Len(input)
    THEN [ok |-> TRUE, err |-> "None", end |-> current(input, p), chars |-> p]
    ELSE IF input[p + 1] = "\\"
         THEN IF p + 1 >= Len(input)
              THEN [ok |-> FALSE, err |-> "MissingEscapedChar", end |-> 0,
                    chars |-> p + 1]
              ELSE raw_string(input, p + 2)
         ELSE IF TokenKind(input[p + 1]) = "None" /\ input[p + 1] \notin Blanks
              THEN raw_string(input, p + 1)
              ELSE [ok |-> TRUE, err |-> "None", end |-> Offset(input, p),
                    chars |-> p]

\* Tokenizer::eatc
eatc(input, p, c) == p < Len(input) /\ input[p + 1] = c

\* spaces that stops after the blank next has already taken.
SpacesOneBlank(input, p) ==
    [ok |-> TRUE, err |-> "None", end |-> current(input, p), chars |-> p]

\* Tokenizer::spaces from cursor p: [ok, end, chars].
RECURSIVE spaces(_, _)
spaces(input, p) ==
    IF eatc(input, p, " ") \/ eatc(input, p, "\t")
    THEN spaces(input, p + 1)
    ELSE [ok |-> TRUE, err |-> "None", end |-> current(input, p), chars |-> p]

\* Tokenizer::next from cursor p.
TokenizerNext(input, p) ==
    IF p >= Len(input)
    THEN TokErr("Eos", p)
    ELSE LET c == input[p + 1]
             start == Offset(input, p)
         IN  IF c = "'"
             THEN LET r == single_quoted_string(input, p + 1)
                  IN  IF r.ok
                      THEN TokOk(Token("QuotedString", start + 1, r.end), r.chars)
                      ELSE TokErr(r.err, r.chars)
             ELSE IF c \in Blanks
             THEN LET r == spaces(input, p + 1)
                  IN  TokOk(Token("Spaces", start, r.end), r.chars)
             ELSE IF TokenKind(c) # "None"
             THEN TokOk(Symbol(TokenKind(c)), p + 1)
             ELSE LET r == raw_string(input, p + 1)
                  IN  IF r.ok
                      THEN TokOk(Token("String", start, r.end), r.chars)
                      ELSE TokErr(r.err, r.chars)

\* Tokenizer::peek_token: next on a clone, the cursor stays.
peek_token(input, p) == [TokenizerNext(input, p) EXCEPT !.chars = p]

\* eat_token that consumes the upcoming token whether or not it is the one
\* asked for.
EatTokenAlwaysAdvances(input, p, kind) ==
    LET t == peek_token(input, p)
    IN  IF t.ok /\ t.tok = Symbol(kind)
        THEN [eaten |-> TRUE, chars |-> TokenizerNext(input, p).chars]
        ELSE [eaten |-> FALSE, chars |-> TokenizerNext(input, p).chars]

\* Tokenizer::eat_token: [eaten, chars].
eat_token(input, p, kind) ==
    LET t == peek_token(input, p)
    IN  IF t.ok /\ t.tok = Symbol(kind)
        THEN [eaten |-> TRUE, chars |-> TokenizerNext(input, p).chars]
        ELSE [eaten |-> FALSE, chars |-> p]

\* Whether String::from(token) returns: the slice is in range, or the
\* unwrap of the token's symbol succeeds.
TokenStringOk(input, tok) ==
    IF tok.kind \in RangeKinds
    THEN SliceOk(input, tok.start, tok.end)
    ELSE TokenChar(tok.kind) # "None"

\* From<Token> for String
TokenString(input, tok) ==
    IF tok.kind \in RangeKinds
    THEN Slice(input, tok.start, tok.end)
    ELSE <<TokenChar(tok.kind)>>

\* ------------------------------------------------------------------- parser
\* parse::Word; name is used by Variable alone, s is the text of a String
\* and the value of a Variable.
Word(kind, name, s) == [kind |-> kind, name |-> name, s |-> s]
And == Word("And", <<>>, <<>>)
Or == Word("Or", <<>>, <<>>)
Pipe == Word("Pipe", <<>>, <<>>)
Terminator == Word("Terminator", <<>>, <<>>)
String(s) == Word("String", <<>>, s)
Variable(name, value) == Word("Variable", name, value)

\* Result<Vec<Word>, parse::Error>; NoResult before parse has returned.
NoResult == [ok |-> FALSE, err |-> "Pending", words |-> <<>>]
Ok(ws) == [ok |-> TRUE, err |-> "None", words |-> ws]
Err(e) == [ok |-> FALSE, err |-> e, words |-> <<>>]
\* parse::Error::TokenErr
TokenErr(e) == IF e = "Eos" THEN "TokenErr(Eos)" ELSE "TokenErr(MissingEscapedChar)"

\* char::is_alphanumeric and char::is_ascii_digit on the model's characters.
is_alphanumeric(c) == c \in Letters \cup Digits \cup WideLetters
is_ascii_digit(c) == c \in Digits

\* is_variable_name that forgets the underscore.
IsVariableNameNoUnderscore(str) ==
    \A i \in 1..Len(str) :
        /\ ~(i = 1 /\ is_ascii_digit(str[i]))
        /\ is_alphanumeric(str[i])

\* parse::is_variable_name
is_variable_name(str) ==
    \A i \in 1..Len(str) :
        /\ ~(i = 1 /\ is_ascii_digit(str[i]))
        /\ (is_alphanumeric(str[i]) \/ str[i] = "_")

\* The parser's state while parse runs: the tokenizer's cursor, the place
\* in the code, the locals of next_word (value, is_somethihg_found, name),
\* of value (s_value) and of double_quoted_string (s_dq, and dq_caller, the
\* function it returns to), the words pushed so far and parse's result.
ParserNew ==
    [chars |-> 0, pc |-> "parse", value |-> <<>>, is_somethihg_found |-> FALSE,
     name |-> <<>>, s_value |-> <<>>, s_dq |-> <<>>, dq_caller |-> "none",
     words |-> <<>>, result |-> NoResult]

\* next_word returns Ok(word) to parse, which pushes it and loops.
ReturnWord(st, p, word) ==
    [st EXCEPT !.chars = p, !.pc = "parse", !.words = Append(st.words, word)]

\* next_word returns Err(e) to parse: Eos ends the loop with Ok(words), any
\* other error is returned.
ReturnErr(st, p, e) ==
    [st EXCEPT !.chars = p, !.pc = "done",
               !.result = IF e = "Eos" THEN Ok(st.words) ELSE Err(e)]

\* A slice out of range: the thread panics.
Panic(st) == [st EXCEPT !.pc = "panic"]

\* parse calls next_word, which sets up its locals.
NextWordEnter(st) ==
    [st EXCEPT !.pc = "next_word", !.value = <<>>, !.is_somethihg_found = FALSE,
               !.name = <<>>, !.s_value = <<>>, !.s_dq = <<>>,
               !.dq_caller = "none"]

\* The arm of next_word for `&` and for `|`: sym is the token, double the
\* word of the doubled operator, single the word of the lone one.
OperatorArm(input, st, sym, double, single) ==
    LET p1 == TokenizerNext(input, st.chars).chars
        e == eat_token(input, p1, sym)
    IN  IF e.eaten
        THEN ReturnWord(st, TokenizerNext(input, e.chars).chars, double)
        ELSE ReturnWord(st, e.chars, single)

\* The arm of next_word for a String token.
StringArm(input, st, tok) ==
    LET p1 == TokenizerNext(input, st.chars).chars
        e == eat_token(input, p1, "Equal")
    IN  IF ~TokenStringOk(input, tok)
        THEN Panic(st)
        ELSE LET name == TokenString(input, tok)
             IN  IF is_variable_name(name) /\ e.eaten
                 THEN [st EXCEPT !.chars = e.chars, !.pc = "value",
                                 !.name = name, !.s_value = <<>>]
                 ELSE [st EXCEPT !.chars = p1, !.value = st.value \o name,
                                 !.is_somethihg_found = TRUE]

\* TerminatorArm without the call of next that consumes the operator.
TerminatorArmNoAdvance(input, st) ==
    IF st.is_somethihg_found
    THEN ReturnWord(st, st.chars, String(st.value))
    ELSE ReturnWord(st, st.chars, Terminator)

\* TerminatorArm that consumes the operator when it returns the text.
TerminatorArmConsumes(input, st) ==
    IF st.is_somethihg_found
    THEN ReturnWord(st, TokenizerNext(input, st.chars).chars, String(st.value))
    ELSE ReturnWord(st, TokenizerNext(input, st.chars).chars, Terminator)

\* The arm of next_word for a newline and for `;`.
TerminatorArm(input, st) ==
    IF st.is_somethihg_found
    THEN ReturnWord(st, st.chars, String(st.value))
    ELSE ReturnWord(st, TokenizerNext(input, st.chars).chars, Terminator)

\* SpacesArm without its `continue`: leading blanks count as something found.
SpacesArmMarksFound(input, st) ==
    IF st.is_somethihg_found
    THEN ReturnWord(st, TokenizerNext(input, st.chars).chars, String(st.value))
    ELSE [st EXCEPT !.chars = TokenizerNext(input, st.chars).chars,
                    !.is_somethihg_found = TRUE]

\* SpacesArm that ends the word at blanks whether or not text was found.
SpacesArmAlwaysReturns(input, st) ==
    ReturnWord(st, TokenizerNext(input, st.chars).chars, String(st.value))

\* The arm of next_word for Spaces.
SpacesArm(input, st) ==
    IF st.is_somethihg_found
    THEN ReturnWord(st, TokenizerNext(input, st.chars).chars, String(st.value))
    ELSE [st EXCEPT !.chars = TokenizerNext(input, st.chars).chars]

\* The arm of next_word for `"`.
DoubleQuoteArm(input, st) ==
    [st EXCEPT !.chars = TokenizerNext(input, st.chars).chars,
               !.pc = "double_quoted_string", !.dq_caller = "next_word",
               !.s_dq = <<>>]

\* The arm of next_word for any other token.
OtherArm(input, st, tok) ==
    IF ~TokenStringOk(input, tok)
    THEN Panic(st)
    ELSE [st EXCEPT !.chars = TokenizerNext(input, st.chars).chars,
                    !.value = st.value \o TokenString(input, tok),
                    !.is_somethihg_found = TRUE]

\* The arm of next_word for Err(token::Error::Eos).
EosArm(input, st) ==
    IF st.is_somethihg_found
    THEN ReturnWord(st, TokenizerNext(input, st.chars).chars, String(st.value))
    ELSE ReturnErr(st, TokenizerNext(input, st.chars).chars, "Eos")

\* One iteration of the loop of next_word.
NextWordIter(input, st) ==
    LET t == peek_token(input, st.chars)
    IN  IF ~t.ok
        THEN IF t.err = "Eos"
             THEN EosArm(input, st)
             ELSE ReturnErr(st, st.chars, TokenErr(t.err))
        ELSE CASE t.tok.kind = "Ampersand" ->
                    OperatorArm(input, st, "Ampersand", And, Terminator)
               [] t.tok.kind = "VerticalBar" ->
                    OperatorArm(input, st, "VerticalBar", Or, Pipe)
               [] t.tok.kind \in {"Newline", "Semicolon"} ->
                    TerminatorArm(input, st)
               [] t.tok.kind = "Spaces" -> SpacesArm(input, st)
               [] t.tok.kind = "DoubleQuote" -> DoubleQuoteArm(input, st)
               [] t.tok.kind = "String" -> StringArm(input, st, t.tok)
               [] OTHER -> OtherArm(input, st, t.tok)

\* One iteration of the loop of Parser::value.
ValueIter(input, st) ==
    LET t == peek_token(input, st.chars)
        p1 == TokenizerNext(input, st.chars).chars
    IN  IF ~t.ok
        THEN ReturnErr(st, st.chars, TokenErr(t.err))
        ELSE CASE t.tok.kind = "DoubleQuote" ->
                    [st EXCEPT !.chars = p1, !.pc = "double_quoted_string",
                               !.dq_caller = "value", !.s_dq = <<>>]
               [] t.tok.kind \in {"Newline", "Semicolon", "Spaces", "Ampersand",
                                  "VerticalBar"} ->
                    ReturnWord(st, st.chars, Variable(st.name, st.s_value))
               [] OTHER ->
                    IF ~TokenStringOk(input, t.tok)
                    THEN Panic(st)
                    ELSE [st EXCEPT !.chars = p1,
                                    !.s_value = st.s_value \o TokenString(input, t.tok)]

\* One iteration of the loop of Parser::double_quoted_string; on the closing
\* quote it returns its text to next_word, which returns it as a String, or
\* to value, whose result next_word returns as the value of a Variable.
DoubleQuotedIter(input, st) ==
    LET n == TokenizerNext(input, st.chars)
    IN  IF ~n.ok
        THEN IF n.err = "Eos"
             THEN ReturnErr(st, n.chars, "NoCloseDoubleQuote")
             ELSE ReturnErr(st, n.chars, TokenErr(n.err))
        ELSE IF n.tok.kind = "DoubleQuote"
             THEN IF st.dq_caller = "value"
                  THEN ReturnWord(st, n.chars, Variable(st.name, st.s_dq))
                  ELSE ReturnWord(st, n.chars, String(st.s_dq))
             ELSE IF ~TokenStringOk(input, n.tok)
                  THEN Panic(st)
                  ELSE [st EXCEPT !.chars = n.chars,
                                  !.s_dq = st.s_dq \o TokenString(input, n.tok)]

\* The step the parser takes from state st.
ParserStep(input, st) ==
    CASE st.pc = "parse" -> NextWordEnter(st)
      [] st.pc = "next_word" -> NextWordIter(input, st)
      [] st.pc = "value" -> ValueIter(input, st)
      [] st.pc = "double_quoted_string" -> DoubleQuotedIter(input, st)
      [] OTHER -> st

\* Parser::next_word called in state st (pc = "parse"): the state when it
\* has returned to parse.
RECURSIVE RunWord(_, _)
RunWord(input, st) ==
    IF st.pc \in {"parse", "done", "panic"}
    THEN st
    ELSE RunWord(input, ParserStep(input, st))

next_word(input, st) == RunWord(input, NextWordEnter(st))

\* Parser::parse run to its end from state st.
RECURSIVE RunParse(_, _)
RunParse(input, st) ==
    IF st.pc \in {"done", "panic"}
    THEN st
    ELSE RunParse(input, next_word(input, st))

\* Parser::new(line).parse(): the result, or "panic".
Parse(line) ==
    LET st == RunParse(line, ParserNew)
    IN  IF st.pc = "panic" THEN [ok |-> FALSE, err |-> "panic", words |-> <<>>]
        ELSE st.result

\* --------------------------------------------------------------------- main
\* ExtractLoop with an arm for Variable that uses up the command slot.
RECURSIVE ExtractLoopVariableTakesSlot(_, _, _, _)
ExtractLoopVariableTakesSlot(ws, i, is_first_word, commands) ==
    IF i > Len(ws)
    THEN commands
    ELSE IF ws[i].kind = "String" /\ is_first_word
         THEN ExtractLoopVariableTakesSlot(ws, i + 1, FALSE,
                                           Append(commands, ws[i].s))
         ELSE IF ws[i].kind \in {"And", "Or", "Pipe", "Terminator"}
              THEN ExtractLoopVariableTakesSlot(ws, i + 1, TRUE, commands)
              ELSE ExtractLoopVariableTakesSlot(ws, i + 1, FALSE, commands)

\* The loop over the words in extract_command_names, from word i on.
RECURSIVE ExtractLoop(_, _, _, _)
ExtractLoop(ws, i, is_first_word, commands) ==
    IF i > Len(ws)
    THEN commands
    ELSE IF ws[i].kind = "String" /\ is_first_word
         THEN ExtractLoop(ws, i + 1, FALSE, Append(commands, ws[i].s))
         ELSE IF ws[i].kind \in {"And", "Or", "Pipe", "Terminator"}
              THEN ExtractLoop(ws, i + 1, TRUE, commands)
              ELSE ExtractLoop(ws, i + 1, is_first_word, commands)

\* extract_command_names on the result of parse: Some(commands) or None.
extract_command_names(res) ==
    IF res.ok
    THEN [some |-> TRUE, commands |-> ExtractLoop(res.words, 1, TRUE, <<>>)]
    ELSE [some |-> FALSE, commands |-> <<>>]

\* HashMap::new()
EmptyMap == [k \in {} |-> 0]

\* *map.entry(cmd).or_insert(0) += 1
Count(m, cmd) ==
    IF cmd \in DOMAIN m
    THEN [m EXCEPT ![cmd] = @ + 1]
    ELSE [k \in DOMAIN m \cup {cmd} |-> IF k = cmd THEN 1 ELSE m[k]]

\* The loop over cmds in main, from command i on.
RECURSIVE CountAll(_, _, _)
CountAll(m, cmds, i) ==
    IF i > Len(cmds) THEN m ELSE CountAll(Count(m, cmds[i]), cmds, i + 1)

\* -------------------------------------------------------------------- lines
\* The lines of at most n characters of alphabet.
LinesUpTo(alphabet, n) == UNION {[1..k -> alphabet] : k \in 0..n}

CoreAlphabet == {"a", "'", "\"", "\\", " ", "&", ";", "="}
FullAlphabet == CoreAlphabet \cup {"1", "_", "-", "é", "\t", "|", "\n", "*"}
MainAlphabet == {"a", "b", "\"", "=", ";"}

\* Lines of the tests and of the documentation, their words cut to a
\* character or two.
\* a && b | c ; d
LineSegments ==
    <<"a", " ", "&", "&", " ", "b", " ", "|", " ", "c", " ", ";", " ", "d">>
\* ls | grep -i file && head || tail
LinePipeline ==
    <<"a", " ", "|", " ", "b", " ", "-", "c", " ", "&", "&", " ", "d", " ",
      "|", "|", " ", "e">>
\* "  LS_COLOR='*.rs=38;5;81'    ls -ABFHhov    --color=auto  "
LineAssignment ==
    <<" ", " ", "d", "_", "1", "=", "'", "*", ";", "1", "'", " ", " ", "a",
      " ", "-", "b", " ", "-", "-", "c", "=", "d", " ">>
\* --color="auto"
LineQuotedOption == <<"-", "-", "c", "=", "\"", "a", "\"">>
\* a &&b
LineAndNoSpace == <<"a", " ", "&", "&", "b">>
\* ls|grep
LinePipeNoSpace == <<"a", "|", "b">>
\* a ||b
LineOrNoSpace == <<"a", " ", "|", "|", "b">>
\* two segments, each an assignment before its command
LineTwoAssignments ==
    <<"e", "=", "1", " ", "a", " ", "b", " ", "|", " ", "c", "=", "d", " ",
      "d">>
\* echo 'abc
LineOpenQuote == <<"e", " ", "'", "a", "b">>
\* echo \
LineOpenEscape == <<"e", " ", "\\">>
\* letters of two bytes, unquoted and in both kinds of quotes
LineWide ==
    <<"é", "=", "'", "é", "'", " ", "\"", "é", " ", "é", "\"", " ", "a", "é">>

\* a;b
LineSemicolon == <<"a", ";", "b">>

SampleLines ==
    {LineSemicolon, LineSegments, LinePipeline, LineAssignment, LineQuotedOption,
     LineAndNoSpace, LinePipeNoSpace, LineOrNoSpace, LineTwoAssignments, LineOpenQuote,
     LineOpenEscape, LineWide}

Lines ==
    LinesUpTo(CoreAlphabet, MaxLen) \cup LinesUpTo(FullAlphabet, MaxShortLen)
        \cup SampleLines

\* --------------------------------------------------------------- the machine
VARIABLES
    input,               \* Tokenizer.input, the line the parser borrows
    chars,               \* Tokenizer.chars, the characters consumed
    pc,                  \* the place in the code
    value,               \* next_word: value
    is_somethihg_found,  \* next_word: is_somethihg_found
    name,                \* next_word: name
    s_value,             \* value: s
    s_dq,                \* double_quoted_string: s
    dq_caller,           \* the caller of double_quoted_string
    words,               \* parse: words
    result,              \* what parse returned
    total,               \* main: total
    map,                 \* main: map
    stdin_lines,         \* the lines main has taken from stdin
    lines_read,          \* the lines read_line has returned
    eof                  \* stdin has ended

parser_vars ==
    <<chars, pc, value, is_somethihg_found, name, s_value, s_dq, dq_caller,
      words, result>>
main_vars == <<total, map, stdin_lines, lines_read, eof>>
vars == <<input, parser_vars, main_vars>>

\* The parser's state as a record, and the assignment of one.
Parser ==
    [chars |-> chars, pc |-> pc, value |-> value,
     is_somethihg_found |-> is_somethihg_found, name |-> name,
     s_value |-> s_value, s_dq |-> s_dq, dq_caller |-> dq_caller,
     words |-> words, result |-> result]

SetParser(st) ==
    /\ chars' = st.chars
    /\ pc' = st.pc
    /\ value' = st.value
    /\ is_somethihg_found' = st.is_somethihg_found
    /\ name' = st.name
    /\ s_value' = st.s_value
    /\ s_dq' = st.s_dq
    /\ dq_caller' = st.dq_caller
    /\ words' = st.words
    /\ result' = st.result

\* The parser in state st, as a predicate on the variables.
ParserIs(st) ==
    /\ chars = st.chars
    /\ pc = st.pc
    /\ value = st.value
    /\ is_somethihg_found = st.is_somethihg_found
    /\ name = st.name
    /\ s_value = st.s_value
    /\ s_dq = st.s_dq
    /\ dq_caller = st.dq_caller
    /\ words = st.words
    /\ result = st.result

\* main before its first read_line.
MainNew ==
    /\ total = 0
    /\ map = EmptyMap
    /\ stdin_lines = 0
    /\ lines_read = 0
    /\ eof = FALSE

\* Parser::new(line) for a line of Lines, about to run parse.
Init ==
    /\ input \in Lines
    /\ ParserIs(ParserNew)
    /\ MainNew

\* parse: the call of next_word at the head of the loop.
ParseCallNextWord ==
    /\ pc = "parse"
    /\ SetParser(ParserStep(input, Parser))
    /\ UNCHANGED <<input, main_vars>>

\* next_word: one iteration of its loop.
NextWordLoop ==
    /\ pc = "next_word"
    /\ SetParser(ParserStep(input, Parser))
    /\ UNCHANGED <<input, main_vars>>

\* value: one iteration of its loop.
ValueLoop ==
    /\ pc = "value"
    /\ SetParser(ParserStep(input, Parser))
    /\ UNCHANGED <<input, main_vars>>

\* double_quoted_string: one iteration of its loop.
DoubleQuotedStringLoop ==
    /\ pc = "double_quoted_string"
    /\ SetParser(ParserStep(input, Parser))
    /\ UNCHANGED <<input, main_vars>>

ParserNext ==
    \/ ParseCallNextWord
    \/ NextWordLoop
    \/ ValueLoop
    \/ DoubleQuotedStringLoop

Next == ParserNext

\* Parser::new(line).parse() on every line of Lines.
Spec == Init /\ [][Next]_vars

\* ------------------------------------------------------- the loop of main
\* The line bodies stdin holds; read_line returns a body with its newline,
\* or without one when stdin ends after it.
MainBodies ==
    LinesUpTo(MainAlphabet, MaxMainLen)
        \cup {LineSegments, LineTwoAssignments, LineOpenEscape}

\* main before its first read_line; no parser exists yet.
InitMain ==
    /\ input = <<>>
    /\ ParserIs([ParserNew EXCEPT !.pc = "read"])
    /\ MainNew

\* read_line returns Ok(n), n > 0: extract_command_names makes a parser of
\* the line and calls parse.
ReadLine ==
    /\ pc = "read"
    /\ ~eof
    /\ stdin_lines < MaxLines
    /\ \E body \in MainBodies, newline \in BOOLEAN :
          /\ newline \/ body # <<>>
          /\ input' = (IF newline THEN body \o <<"\n">> ELSE body)
          /\ eof' = ~newline
    /\ SetParser(ParserNew)
    /\ stdin_lines' = stdin_lines + 1
    /\ lines_read' = lines_read + 1
    /\ UNCHANGED <<total, map>>

\* read_line returns Err of kind InvalidData: the line is not UTF-8, the
\* buffer is left as it was and the loop continues.
ReadInvalidData ==
    /\ pc = "read"
    /\ ~eof
    /\ stdin_lines < MaxLines
    /\ stdin_lines' = stdin_lines + 1
    /\ eof' \in BOOLEAN
    /\ UNCHANGED <<input, parser_vars, total, map, lines_read>>

\* read_line returns Ok(0) or another error: the loop ends, and the report
\* that follows reads total and map and changes neither.
ReadEnd ==
    /\ pc = "read"
    /\ pc' = "exit"
    /\ UNCHANGED <<input, chars, value, is_somethihg_found, name, s_value, s_dq,
                   dq_caller, words, result, main_vars>>

\* Aggregate with a `continue` on None: a line that fails to parse is not
\* added to total.
AggregateSkipsRejected ==
    /\ pc = "done"
    /\ LET cmds == extract_command_names(result)
       IN  /\ map' = (IF cmds.some THEN CountAll(map, cmds.commands, 1) ELSE map)
           /\ total' = (IF cmds.some THEN total + 1 ELSE total)
    /\ input' = <<>>
    /\ SetParser([ParserNew EXCEPT !.pc = "read"])
    /\ UNCHANGED <<stdin_lines, lines_read, eof>>

\* parse has returned: extract_command_names returns the commands or None,
\* main counts them, adds one to total and clears the line.
Aggregate ==
    /\ pc = "done"
    /\ LET cmds == extract_command_names(result)
       IN  map' = (IF cmds.some THEN CountAll(map, cmds.commands, 1) ELSE map)
    /\ total' = total + 1
    /\ input' = <<>>
    /\ SetParser([ParserNew EXCEPT !.pc = "read"])
    /\ UNCHANGED <<stdin_lines, lines_read, eof>>

NextMain ==
    \/ ReadLine
    \/ ReadInvalidData
    \/ ReadEnd
    \/ ParserNext
    \/ Aggregate

\* main reading at most MaxLines lines from stdin.
SpecMain == InitMain /\ [][NextMain]_vars

\* ------------------------------------------------------------------- claims
Running == {"parse", "next_word", "value", "double_quoted_string"}

\* A natural number that bounds the steps parse has left in state st: the
\* characters not yet consumed, then the place in the code.
Measure(in, st) ==
    4 * (Len(in) - st.chars)
        + (CASE st.pc \in {"done", "panic"} -> 0
             [] st.pc = "next_word" /\ ~st.is_somethihg_found -> 1
             [] st.pc = "parse" -> 2
             [] OTHER -> 3)

\* C1: parse terminates with Ok or an error and never panics.  No slice is
\* out of range and no unwrap fails; every step of parse, next_word, value
\* and double_quoted_string lowers a measure that is never negative, so no
\* loop runs forever; what
\* parse returns is Ok(words) or an error; every call of Tokenizer::next that
\* returns a token, at any cursor, and every call of next_word that returns
\* a word leaves the cursor at least one character further.
C1_ParseTerminates ==
    /\ pc # "panic"
    /\ chars \in 0..Len(input)
    /\ pc \in Running =>
          LET m == Measure(input, ParserStep(input, Parser))
          IN  m < Measure(input, Parser) /\ m >= 0
    /\ pc = "done" =>
          \/ result.ok /\ result.words = words
          \/ result.err \in {"NoCloseDoubleQuote", "TokenErr(Eos)",
                             "TokenErr(MissingEscapedChar)"}
    /\ chars = 0 =>
          \A p \in 0..Len(input) :
              LET t == TokenizerNext(input, p) IN t.ok => t.chars > p
    /\ pc = "parse" =>
          LET r == next_word(input, Parser)
          IN  Len(r.words) > Len(words) => r.chars > chars

\* C1 witness: parse has returned the four words of the line of the test
\* that holds an assignment, a quoted string and blanks at both ends.
C1_Witness ==
    /\ pc = "done"
    /\ input = LineAssignment
    /\ result.ok
    /\ Len(result.words) = 4
    /\ chars = Len(input)

\* The quoting of a line as the shell reads it, from character i on in
\* mode "out" (unquoted), "sq" (in '...') or "dq" (in "..."): whether the line
\* ends inside a quoted segment.  A backslash escapes the next character
\* in unquoted text and in "...".
RECURSIVE EndsInsideQuote(_, _, _)
EndsInsideQuote(line, i, mode) ==
    IF i > Len(line)
    THEN mode # "out"
    ELSE CASE mode = "sq" ->
                EndsInsideQuote(line, i + 1, IF line[i] = "'" THEN "out" ELSE "sq")
           [] line[i] = "\\" -> EndsInsideQuote(line, i + 2, mode)
           [] mode = "dq" ->
                EndsInsideQuote(line, i + 1, IF line[i] = "\"" THEN "out" ELSE "dq")
           [] line[i] = "'" -> EndsInsideQuote(line, i + 1, "sq")
           [] line[i] = "\"" -> EndsInsideQuote(line, i + 1, "dq")
           [] OTHER -> EndsInsideQuote(line, i + 1, "out")

\* C2 (as claimed): a line that ends inside a quoted segment, its opening
\* ' or " never closed, makes parse return an error, never Ok.
C2_UnterminatedQuoteIsError ==
    (pc = "done" /\ EndsInsideQuote(input, 1, "out")) => ~result.ok

\* The backslashes at the end of a line.
RECURSIVE TrailingBackslashes(_)
TrailingBackslashes(line) ==
    IF line = <<>> \/ line[Len(line)] # "\\"
    THEN 0
    ELSE 1 + TrailingBackslashes(SubSeq(line, 1, Len(line) - 1))

\* C3 (as claimed): a line of unquoted text (no quote, no reserved symbol)
\* whose last character is a backslash that no backslash before it escapes
\* makes parse return TokenErr(MissingEscapedChar).
C3_DanglingEscapeIsError ==
    (/\ pc = "done"
     /\ TrailingBackslashes(input) % 2 = 1
     /\ \A i \in 1..Len(input) : input[i] # "'" /\ TokenKind(input[i]) = "None")
        => result = Err("TokenErr(MissingEscapedChar)")

\* C4 (as claimed): parse never returns the end-of-input sentinel, neither
\* as Error::Eos nor as TokenErr(token::Error::Eos).
C4_EosNeverSurfaces ==
    pc = "done" => result.err \notin {"Eos", "TokenErr(Eos)"}

\* A line with its quote delimiters taken away, as the shell reads a line
\* without backslashes, from character i on in mode "out", "sq" or "dq".
RECURSIVE Unquote(_, _, _)
Unquote(line, i, mode) ==
    IF i > Len(line)
    THEN <<>>
    ELSE CASE mode = "out" /\ line[i] = "'" -> Unquote(line, i + 1, "sq")
           [] mode = "out" /\ line[i] = "\"" -> Unquote(line, i + 1, "dq")
           [] mode = "sq" /\ line[i] = "'" -> Unquote(line, i + 1, "out")
           [] mode = "dq" /\ line[i] = "\"" -> Unquote(line, i + 1, "out")
           [] OTHER -> <<line[i]>> \o Unquote(line, i + 1, mode)

\* A line made of text fragments alone: ordinary characters and quote
\* delimiters, every quoted segment closed and none holding a quote
\* character; no blank, no backslash and no reserved symbol.
OnlyFragments(line) ==
    /\ line # <<>>
    /\ \A i \in 1..Len(line) :
          \/ line[i] \in {"'", "\""}
          \/ TokenKind(line[i]) = "None" /\ line[i] \notin Blanks \cup {"\\"}
    /\ ~EndsInsideQuote(line, 1, "out")
    /\ \A i \in 1..Len(Unquote(line, 1, "out")) :
          Unquote(line, 1, "out")[i] \notin {"'", "\""}

\* C5 (as claimed): adjacent text fragments make one String word, in input
\* order and with no fragment dropped: a line of fragments alone parses to
\* the one String of its text without the quote delimiters, and
\* --color="auto" parses to the one String --color=auto.
C5_AdjacentFragmentsOneWord ==
    /\ (pc = "done" /\ OnlyFragments(input))
          => result = Ok(<<String(Unquote(input, 1, "out"))>>)
    /\ (pc = "done" /\ input = LineQuotedOption)
          => result = Ok(<<String(<<"-", "-", "c", "=", "a">>)>>)

\* C6 (as claimed): with the cursor of parse at `&` or `|`, next_word returns
\* And or Or for the doubled operator and Terminator or Pipe for the lone
\* one, and the line goes on being parsed from the character right after
\* the operator: the result of parse is the one it has with the cursor put
\* exactly there.
C6_OperatorConsumesOnlyItself ==
    (pc = "parse" /\ chars < Len(input) /\ input[chars + 1] \in {"&", "|"}) =>
        LET c == input[chars + 1]
            doubled == chars + 1 < Len(input) /\ input[chars + 2] = c
            word == IF c = "&"
                    THEN (IF doubled THEN And ELSE Terminator)
                    ELSE (IF doubled THEN Or ELSE Pipe)
            after == [Parser EXCEPT !.chars = chars + (IF doubled THEN 2 ELSE 1),
                                    !.words = Append(words, word)]
            r == next_word(input, Parser)
        IN  /\ r.words = Append(words, word)
            /\ RunParse(input, r).result = RunParse(input, after).result

Operators == {"And", "Or", "Pipe", "Terminator"}

\* The places in ws of the first String word of each segment: a String word
\* with an operator between it and every String word before it.
CommandPlaces(ws) ==
    {i \in 1..Len(ws) :
        /\ ws[i].kind = "String"
        /\ \A j \in 1..(i - 1) :
              ws[j].kind = "String" =>
                  \E k \in (j + 1)..(i - 1) : ws[k].kind \in Operators}

\* The text of the words of ws at places, in order.
WordsAt(ws, places) ==
    [n \in 1..Cardinality(places) |->
        ws[CHOOSE i \in places : Cardinality({j \in places : j <= i}) = n].s]

\* C7: extract_command_names returns, in order, the first String word of
\* each segment that holds one, and nothing else; a Variable is never
\* returned and takes no command slot; a && b | c ; d gives [a, b, c, d].
C7_OneCommandPerSegment ==
    /\ (pc = "done" /\ result.ok) =>
          /\ extract_command_names(result).some
          /\ extract_command_names(result).commands
                = WordsAt(result.words, CommandPlaces(result.words))
    /\ (pc = "done" /\ input = LineSegments) =>
          extract_command_names(result).commands
              = <<(<<"a">>), (<<"b">>), (<<"c">>), (<<"d">>)>>

\* C7 witness: the line e=1 a b | c=d d has been parsed: two segments, each
\* with a Variable before its command, give the commands [a, d].
C7_Witness ==
    /\ pc = "done"
    /\ input = LineTwoAssignments
    /\ Len(result.words) = 6
    /\ result.words[1].kind = "Variable"
    /\ result.words[5].kind = "Variable"
    /\ extract_command_names(result).commands = <<(<<"a">>), (<<"d">>)>>

\* The count of cmd in map m, 0 when m has no entry for it.
CountOf(m, cmd) == IF cmd \in DOMAIN m THEN m[cmd] ELSE 0

\* How many times cmd stands in the sequence names.
Occurrences(names, cmd) == Cardinality({i \in DOMAIN names : names[i] = cmd})

\* The step of main that ends the work on a line: total goes up by one; a
\* line that parse rejected leaves map as it was; a line that parsed adds to
\* the count of each name one for every segment of which it is the command.
C8_LineCounted ==
    (pc = "done" /\ pc' = "read") =>
        /\ total' = total + 1
        /\ ~result.ok => map' = map
        /\ result.ok =>
              LET names == WordsAt(result.words, CommandPlaces(result.words))
              IN  \A cmd \in DOMAIN map \cup DOMAIN map' :
                     CountOf(map', cmd)
                         = CountOf(map, cmd) + Occurrences(names, cmd)

\* C8: in the loop of main, total is the number of lines read_line has
\* returned whenever a line is about to be read or the loop has ended (one
\* less while a line is at work), and every line adds one to total and adds
\* its command names to the counts, or nothing when parse returns an error.
C8_TotalAndCounts ==
    /\ [](/\ pc \in {"read", "exit"} => total = lines_read
          /\ pc \in Running \cup {"done"} => total + 1 = lines_read)
    /\ [][C8_LineCounted]_vars

\* C8 witness: a line that parse rejected is about to be counted, after a
\* line that added a command to the counts.
C8_Witness ==
    /\ pc = "done"
    /\ ~result.ok
    /\ result.err = "NoCloseDoubleQuote"
    /\ total = 1
    /\ DOMAIN map # {}

\* C9 (as claimed): a line that does not end in a backslash parses to the
\* same result with any runs of spaces and tabs put before and after it.
C9_OuterBlanksInsignificant ==
    (pc = "done" /\ (input = <<>> \/ input[Len(input)] # "\\")) =>
        \A w1, w2 \in LinesUpTo(Blanks, MaxPad) :
            Parse(w1 \o input \o w2) = result

\* C10: the empty line and a line of spaces and tabs alone parse to Ok with
\* no word.
C10_BlankLineNoWords ==
    (pc = "done" /\ \A i \in 1..Len(input) : input[i] \in Blanks)
        => result = Ok(<<>>)

\* C10 witness: parse has returned on a line of a space and a tab.
C10_Witness ==
    /\ pc = "done"
    /\ input = <<" ", "\t">>
    /\ result.ok

\* The tokens eat_token is called with.
EatenKinds == {"Ampersand", "VerticalBar", "Equal"}

\* The parser has just been made of the line: what holds of the tokenizer
\* at every cursor of the line is checked here, once for each line.
LineStart == pc = "parse" /\ chars = 0 /\ words = <<>>

\* C11: at every cursor of every line, peek_token returns the token or the
\* error that next returns there and leaves the cursor where it was;
\* eat_token returns true and
\* leaves the cursor after one token when next returns the token asked for,
\* and returns false with the cursor unmoved on another token, at the end
\* of the input and on an error of the tokenizer.
C11_PeekAndEat ==
    LineStart => \A p \in 0..Len(input) :
        LET n == TokenizerNext(input, p)
            k == peek_token(input, p)
        IN  /\ k.ok = n.ok /\ k.tok = n.tok /\ k.err = n.err
            /\ k.chars = p
            /\ \A kind \in EatenKinds :
                  LET e == eat_token(input, p, kind)
                  IN  IF n.ok /\ n.tok.kind = kind
                      THEN e.eaten /\ e.chars = n.chars /\ e.chars = p + 1
                      ELSE ~e.eaten /\ e.chars = p

\* C11 witness: next_word has eaten the `=` after a name and stands in
\* value, where the tokenizer is at the end of the line.
C11_Witness ==
    /\ pc = "value"
    /\ chars >= 2
    /\ input[chars] = "="
    /\ chars = Len(input)

\* C12 (as claimed): next_word turns to the value of a Variable only on the
\* first text segment of a word; an identifier followed by `=` that comes
\* after text of the same word stays text of that String word.
C12_VariableOnlyFirstSegment ==
    pc = "value" => ~is_somethihg_found

\* The names of test_is_variable_name: LS_COLORS, var, 1var, var-var.
NameLsColors == <<"L", "S", "_", "C", "O", "L", "O", "R", "S">>
NameVar == <<"v", "a", "r">>
NameDigitFirst == <<"1", "v", "a", "r">>
NameWithDash == <<"v", "a", "r", "-", "v", "a", "r">>

\* A string whose first character is no ASCII digit and whose characters
\* are all alphanumeric or `_`.
ValidIdentifier(str) ==
    /\ str = <<>> \/ str[1] \notin Digits
    /\ {str[i] : i \in 1..Len(str)}
          \subseteq Letters \cup Digits \cup WideLetters \cup {"_"}

\* C13: is_variable_name holds of exactly the valid identifiers: of every
\* line taken as a name, and of every name next_word has made a Variable
\* of; it accepts LS_COLORS and var and rejects 1var and var-var.
C13_IsVariableName ==
    /\ LineStart => (is_variable_name(input) <=> ValidIdentifier(input))
    /\ pc = "value" => ValidIdentifier(name) /\ name # <<>>
    /\ LineStart =>
          /\ is_variable_name(NameLsColors)
          /\ is_variable_name(NameVar)
          /\ ~is_variable_name(NameDigitFirst)
          /\ ~is_variable_name(NameWithDash)

\* C13 witness: next_word has taken d_1, a name with an underscore and a
\* digit, for the name of a Variable.
C13_Witness ==
    /\ pc = "value"
    /\ name = <<"d", "_", "1">>
    /\ input = LineAssignment

\* C14 (as claimed): when `&` or `|` follows the accumulated text of a word
\* with no blank in between, next_word returns that text as a String word
\* before the operator word; `a|b` gives [a, Pipe, b] and `a&&a` gives
\* [a, And, a].
C14_TextBeforeOperatorKept ==
    /\ ( /\ pc = "next_word"
         /\ is_somethihg_found
         /\ chars < Len(input)
         /\ input[chars + 1] \in {"&", "|"} )
       => LET s == ParserStep(input, Parser)
          IN  /\ s.pc = "parse"
              /\ s.words = Append(words, String(value))
    /\ (pc = "done" /\ input = LinePipeNoSpace)
       => result = Ok(<<String(<<"a">>), Pipe, String(<<"b">>)>>)
    /\ (pc = "done" /\ input = <<"a", "&", "&", "a">>)
       => result = Ok(<<String(<<"a">>), And, String(<<"a">>)>>)

\* C15: when next_word reaches `;` or a newline with text accumulated, it
\* returns the String word and leaves the operator where it is, and the
\* call after it returns Terminator and consumes the operator; with nothing
\* accumulated it consumes the operator and returns Terminator at once.
\* `a;b` gives [a, Terminator, b].
C15_TerminatorAfterText ==
    /\ ( /\ pc = "next_word"
         /\ chars < Len(input)
         /\ input[chars + 1] \in {";", "\n"} )
       => LET s == ParserStep(input, Parser)
          IN  IF is_somethihg_found
              THEN /\ s.pc = "parse"
                   /\ s.chars = chars
                   /\ s.words = Append(words, String(value))
                   /\ LET r == next_word(input, s)
                      IN  /\ r.pc = "parse"
                          /\ r.chars = chars + 1
                          /\ r.words = Append(s.words, Terminator)
              ELSE /\ s.pc = "parse"
                   /\ s.chars = chars + 1
                   /\ s.words = Append(words, Terminator)
    /\ (pc = "done" /\ input = LineSemicolon)
       => result = Ok(<<String(<<"a">>), Terminator, String(<<"b">>)>>)

\* C15 witness: `a;b` has been parsed and the Terminator stands between the
\* two String words.
C15_Witness ==
    /\ pc = "done"
    /\ input = LineSemicolon
    /\ result.ok
    /\ Len(result.words) = 3
    /\ result.words[2] = Terminator

\* An explicit empty quoted string, `''` or `""`, stands in the line
\* somewhere from character from to character to.
EmptyQuotedStringIn(line, from, to) ==
    \E i \in from..(to - 1) :
        /\ line[i] \in {"'", "\""}
        /\ line[i + 1] = line[i]

\* C16: a call of next_word returns a String word of empty text only when
\* the characters the call consumed hold an explicit empty quoted string;
\* so every empty String word of a parsed line comes from `''` or `""`.
C16_EmptyWordOnlyFromEmptyQuotes ==
    /\ pc = "parse"
       => LET r == next_word(input, Parser)
          IN  ( /\ r.pc = "parse"
                /\ r.words[Len(r.words)] = String(<<>>) )
              => EmptyQuotedStringIn(input, chars + 1, r.chars)
    /\ (pc = "done" /\ result.ok /\ String(<<>>) \in {result.words[i] : i \in 1..Len(result.words)})
       => EmptyQuotedStringIn(input, 1, Len(input))

\* C16 witness: the line `""` has been parsed to one String word of empty
\* text.
C16_Witness ==
    /\ pc = "done"
    /\ input = <<"\"", "\"">>
    /\ result = Ok(<<String(<<>>)>>)

\* The tokens that successive calls of Tokenizer::next return from cursor
\* p on, up to the first error.
RECURSIVE TokenStream(_, _)
TokenStream(line, p) ==
    LET n == TokenizerNext(line, p)
    IN  IF n.ok THEN <<n.tok>> \o TokenStream(line, n.chars) ELSE <<>>

\* C17: every Spaces, String and QuotedString token that next returns has
\* start <= end <= length of the input; a Spaces or String token is not
\* empty; a Spaces token holds blanks only and runs on to the first
\* character that is no blank; and over successive calls the ranges start
\* later each time and do not overlap.
C17_TokenRanges ==
    LineStart => \A p \in 0..Len(input) :
        LET n == TokenizerNext(input, p)
            ts == TokenStream(input, p)
            ranged == {i \in 1..Len(ts) : ts[i].kind \in RangeKinds}
        IN  /\ (n.ok /\ n.tok.kind \in RangeKinds) =>
                  /\ n.tok.start <= n.tok.end
                  /\ n.tok.end <= ByteLen(input)
                  /\ n.tok.start >= Offset(input, p)
                  /\ n.chars > p
            /\ (n.ok /\ n.tok.kind \in {"Spaces", "String"}) =>
                  /\ n.tok.start < n.tok.end
                  /\ n.tok.start = Offset(input, p)
                  /\ n.tok.end = current(input, n.chars)
            /\ (n.ok /\ n.tok.kind = "Spaces") =>
                  /\ \A i \in (p + 1)..n.chars : input[i] \in Blanks
                  /\ n.chars < Len(input) => input[n.chars + 1] \notin Blanks
            /\ \A i, j \in ranged :
                  i < j => /\ ts[i].end <= ts[j].start
                           /\ ts[i].start < ts[j].start

\* C17 witness: next has returned a Spaces token of two blanks, and the
\* parser stands behind it.
C17_Witness ==
    /\ pc = "next_word"
    /\ chars = 2
    /\ input = <<" ", " ", "a">>
    /\ ~is_somethihg_found

\* The cursors at which successive calls of Tokenizer::next from cursor p
\* are made.
RECURSIVE StreamCursors(_, _)
StreamCursors(line, p) ==
    LET n == TokenizerNext(line, p)
    IN  IF n.ok THEN {p} \cup StreamCursors(line, n.chars) ELSE {p}

\* C18 (as claimed): on a line without backslashes, a String token that
\* next returns holds no blank, no reserved symbol and no `'`, and a
\* QuotedString token holds no `'`.
C18_RawRunStopsAtReserved ==
    (LineStart /\ "\\" \notin {input[i] : i \in 1..Len(input)}) =>
        \A p \in StreamCursors(input, 0) :
            LET n == TokenizerNext(input, p)
            IN  /\ (n.ok /\ n.tok.kind = "String") =>
                      \A i \in (p + 1)..n.chars :
                          /\ input[i] \notin Blanks
                          /\ TokenKind(input[i]) = "None"
                          /\ input[i] # "'"
                /\ (n.ok /\ n.tok.kind = "QuotedString") =>
                      \A i \in (p + 2)..(n.chars - 1) : input[i] # "'"

\* C19 (as claimed): on a line without quotes, a backslash that has a
\* character after it escapes that character wherever it stands in the
\* run: when next is called at the backslash, or one character before it
\* at a character of a raw run, the String token it returns holds the
\* backslash and the character after it.
C19_BackslashEscapesAnywhere ==
    (LineStart /\ {"'", "\""} \cap {input[i] : i \in 1..Len(input)} = {}) =>
        \A p \in StreamCursors(input, 0) :
            LET n == TokenizerNext(input, p)
            IN  /\ (p + 1 < Len(input) /\ input[p + 1] = "\\") =>
                      /\ n.ok
                      /\ n.tok.kind = "String"
                      /\ n.chars >= p + 2
                /\ ( /\ p + 2 < Len(input)
                     /\ input[p + 2] = "\\"
                     /\ n.ok
                     /\ n.tok.kind = "String" ) => n.chars >= p + 3

\* The place of the first `"` of the line after character p, 0 when there
\* is none.
RECURSIVE FirstDoubleQuoteAfter(_, _)
FirstDoubleQuoteAfter(line, p) ==
    IF p >= Len(line) THEN 0
    ELSE IF line[p + 1] = "\"" THEN p + 1
    ELSE FirstDoubleQuoteAfter(line, p + 1)

\* C20 (as claimed): when the parser has just consumed an opening `"` and
\* a `"` follows with no backslash in between, the double-quoted segment
\* ends at that `"` and its text is exactly the characters between the two,
\* with blanks, operators and `'` kept as they are.
C20_DoubleQuotedLiteral ==
    ( /\ pc = "double_quoted_string"
      /\ s_dq = <<>>
      /\ chars >= 1
      /\ input[chars] = "\""
      /\ FirstDoubleQuoteAfter(input, chars) # 0
      /\ \A i \in (chars + 1)..FirstDoubleQuoteAfter(input, chars) :
            input[i] # "\\" )
    => LET close == FirstDoubleQuoteAfter(input, chars)
           r == RunWord(input, Parser)
       IN  /\ r.pc = "parse"
           /\ r.chars = close
           /\ r.words[Len(r.words)].s = SubSeq(input, chars + 1, close - 1)

====
